---- MODULE Spec2Model ----
(***************************************************************************)
(* Telemetry simulator: the minimal MQTT publisher (SimpleMqttPublisher),  *)
(* the stream socket it drives, the metric generator and the per-metric    *)
(* timers; and the dashboard's App component with its metrics store.       *)
(*                                                                          *)
(* Spec       the publisher object driven by an arbitrary caller           *)
(*            (connect / publish / end) and by the socket's events.        *)
(* SimSpec    the simulator process itself: the top-level connect().then/  *)
(*            .catch chain, the metric timers, SIGINT and process exit.    *)
(* CodecSpec  the two encoding functions, one call per behaviour.          *)
(* DashSpec   the dashboard: onMetric, the animation-frame flush, the      *)
(*            store's applyUpdates and the messages posted to the worker.  *)
(*                                                                          *)
(* Numbers: a metric's value and target are held on the grid of the         *)
(* metric's display precision (scale = 10^precision grid steps per unit);   *)
(* every arithmetic result is rounded to the nearest grid step.            *)
(* Math.random() is drawn from {0/RandDen, ..., (RandDen-1)/RandDen}.      *)
(* Strings are sequences of code points, Buffers sequences of bytes.       *)
(***************************************************************************)
EXTENDS Integers, Sequences, FiniteSets, TLC

\* ---------------------------------------------------------------- bounds
MaxAttempts == 2
MaxWire == 3
MaxChunk == 4
LongPayload == 123
MaxStr == 3
MaxLength == 130
MaxMsgs == 3
MaxAcc == 3
MaxUpdates == 2
MaxCalls == 2
RandDen == 3

\* ------------------------------------------------------- program state
VARIABLES
  socket,          \* this.socket: 0 is null, n is the n-th socket created
  isReady,         \* this.isReady
  connectPromise,  \* this.connectPromise: 0 is null, n the promise of attempt n
  promise,         \* settlement of each attempt's promise
  sockState,       \* life cycle of each socket created by net.createConnection
  ended,           \* live sockets whose writable side was ended by socket.end()
  wire,            \* kinds of the first MaxWire frames exchanged on this.socket:
                   \* those it accepted for sending, and the acknowledgement
                   \* the data handler accepted
  metricStates,    \* metricStates[id] = [value, target]
  timers,          \* the registered setInterval tasks, in registration order
  ticked,          \* metrics whose state has been advanced at least once
  proc,            \* position of the simulator process
  exitCode,        \* exit status once the process has terminated (-1 before)
  last,            \* the last operation that ran, with its observable result
  codec,           \* the last call of an encoding function: argument and result
  mounted,         \* life cycle of the dashboard's App component
  worker,          \* App's worker: FALSE is null, TRUE the render worker
  rafHandle,       \* App's rafHandle: 0, or 1 for a handle requestAnimationFrame gave
  frameRequested,  \* the browser holds an animation-frame request for flushFrame
  disconnectMqtt,  \* App's disconnectMqtt: FALSE is null, TRUE a live MQTT client
  pendingUpdates,  \* App's pendingUpdates queue
  store,           \* the state of the metrics store
  inbox,           \* the messages posted to the render worker, in order
  clock,           \* the dashboard's clock: the last frame time read
  compose,         \* a run of scripts/compose.sh: position, environment, "$@"
  render           \* the render worker: its module state and the canvas

pubVars == <<socket, isReady, connectPromise, promise, sockState, ended, wire>>
simVars == <<metricStates, timers, ticked, proc, exitCode>>
dashVars == <<mounted, worker, rafHandle, frameRequested, disconnectMqtt,
              pendingUpdates, store, inbox, clock>>
\* the state outside the simulator process
extVars == <<codec, dashVars, compose, render>>
vars == <<socket, isReady, connectPromise, promise, sockState, ended, wire,
          metricStates, timers, ticked, proc, exitCode, last, codec,
          mounted, worker, rafHandle, frameRequested, disconnectMqtt,
          pendingUpdates, store, inbox, clock, compose, render>>

Sockets == 1..MaxAttempts

\* ------------------------------------------------------------ arithmetic
Abs(x) == IF x < 0 THEN -x ELSE x

Min2(a, b) == IF a < b THEN a ELSE b

Max2(a, b) == IF a > b THEN a ELSE b

\* n/d rounded to the nearest integer (d > 0)
RoundDiv(n, d) == (2 * n + d) \div (2 * d)

\* the values Math.random() takes in the model, as numerators over RandDen
Rand == 0..(RandDen - 1)

\* ------------------------------------------------------------ metric table
metricOrder == <<"fuelLevel", "brakePressure", "gear">>

metrics ==
  ( "fuelLevel" :> [id |-> "fuelLevel", label |-> "Fuel", unit |-> "%",
                    min |-> 50, max |-> 1000, sNum |-> 1, sDen |-> 100,
                    frequency |-> 1, scale |-> 10, digits |-> 10,
                    gen |-> "fuelLevel"]
 @@ "brakePressure" :> [id |-> "brakePressure", label |-> "Brake", unit |-> "%",
                    min |-> 0, max |-> 100, sNum |-> 2, sDen |-> 5,
                    frequency |-> 30, scale |-> 1, digits |-> 1,
                    gen |-> "default"]
 @@ "gear" :> [id |-> "gear", label |-> "Gear", unit |-> "",
                    min |-> 1, max |-> 8, sNum |-> 1, sDen |-> 1,
                    frequency |-> 2, scale |-> 1, digits |-> 1,
                    gen |-> "gear"] )

MetricIds == DOMAIN metrics

\* the two metrics whose generator adds to the value. Their values are
\* held in units of the smallest step the generator takes (1/scale km), so
\* that Math.random() * 0.05 and Math.random() * 0.02 are whole units; they
\* are shown with no decimals (digits 1)
accumulating ==
  ( "odometer" :> [id |-> "odometer", label |-> "Odo", unit |-> "km",
                   min |-> 0, max |-> 200000 * 20 * RandDen, sNum |-> 1, sDen |-> 100000,
                   frequency |-> 1, scale |-> 20 * RandDen, digits |-> 1,
                   gen |-> "odometer"]
 @@ "trip" :> [id |-> "trip", label |-> "Trip", unit |-> "km",
                   min |-> 0, max |-> 500 * 50 * RandDen, sNum |-> 1, sDen |-> 5000,
                   frequency |-> 2, scale |-> 50 * RandDen, digits |-> 1,
                   gen |-> "trip"] )

AccIds == DOMAIN accumulating

clamp_mut(value, min, max) == Min2(value, max)

clamp(value, min, max) == Min2(Max2(value, min), max)

\* Math.random() * (max - min) + min with Math.random() = k / RandDen
randomInRange(min, max, k) == RoundDiv(k * (max - min), RandDen) + min

\* current + towards * smoothing + noise,
\* noise = (Math.random() - 0.5) * smoothing * (max - min) * 0.01
defaultGenerator(m, current, target, k) ==
  current + RoundDiv((target - current) * m.sNum * 200 * RandDen
                       + (2 * k - RandDen) * m.sNum * (m.max - m.min),
                     200 * RandDen * m.sDen)

generator_mut(m, current, target, k) ==
  CASE m.gen = "fuelLevel" -> Max2(0, current + RoundDiv(k * m.scale, 10 * RandDen))
    [] m.gen = "gear"      -> (((k * 8) \div RandDen) + 1) * m.scale
    [] m.gen = "odometer"  -> current - RoundDiv(k * m.scale * 5, 100 * RandDen)
    [] m.gen = "trip"      -> current - RoundDiv(k * m.scale * 2, 100 * RandDen)
    [] OTHER               -> defaultGenerator(m, current, target, k)

\* the metric's generator: the override of the table, or the default rule
generator(m, current, target, k) ==
  CASE m.gen = "fuelLevel" -> Max2(0, current - RoundDiv(k * m.scale, 10 * RandDen))
    [] m.gen = "gear"      -> (((k * 8) \div RandDen) + 1) * m.scale
    [] m.gen = "odometer"  -> current + RoundDiv(k * m.scale * 5, 100 * RandDen)
    [] m.gen = "trip"      -> current + RoundDiv(k * m.scale * 2, 100 * RandDen)
    [] OTHER               -> defaultGenerator(m, current, target, k)

ShouldResample_mut(m, value, target) ==
  Abs(value - target) <= (m.sNum * 5 * m.scale) \div m.sDen

\* Math.abs(state.value - state.target) < metric.smoothing * 5, that is
\* |value - target| * sDen < sNum * 5 * scale in whole units
ShouldResample(m, value, target) ==
  Abs(value - target) <= (m.sNum * 5 * m.scale - 1) \div m.sDen

\* ------------------------------------------------------------ text and bytes
\* a string is the sequence of its code points, a Buffer the sequence of
\* its bytes; Text gives the code points of the string literals of the source
Text(s) ==
  CASE s = "hmi/metrics"     -> <<104, 109, 105, 47, 109, 101, 116, 114, 105, 99, 115>>
    [] s = "MQTT"            -> <<77, 81, 84, 84>>
    [] s = "fuelLevel"       -> <<102, 117, 101, 108, 76, 101, 118, 101, 108>>
    [] s = "brakePressure"   -> <<98, 114, 97, 107, 101, 80, 114, 101, 115, 115, 117, 114, 101>>
    [] s = "gear"            -> <<103, 101, 97, 114>>
    [] s = "odometer"        -> <<111, 100, 111, 109, 101, 116, 101, 114>>
    [] s = "trip"            -> <<116, 114, 105, 112>>
    [] s = "Odo"             -> <<79, 100, 111>>
    [] s = "Trip"            -> <<84, 114, 105, 112>>
    [] s = "km"              -> <<107, 109>>
    [] s = "Fuel"            -> <<70, 117, 101, 108>>
    [] s = "Brake"           -> <<66, 114, 97, 107, 101>>
    [] s = "Gear"            -> <<71, 101, 97, 114>>
    [] s = "%"               -> <<37>>
    [] s = ""                -> <<>>
    [] s = "/"               -> <<47>>
    [] s = "-"               -> <<45>>
    [] s = "."               -> <<46>>
    [] s = "{\"id\":\""        -> <<123, 34, 105, 100, 34, 58, 34>>
    [] s = "\",\"label\":\""   -> <<34, 44, 34, 108, 97, 98, 101, 108, 34, 58, 34>>
    [] s = "\",\"unit\":\""    -> <<34, 44, 34, 117, 110, 105, 116, 34, 58, 34>>
    [] s = "\",\"value\":"     -> <<34, 44, 34, 118, 97, 108, 117, 101, 34, 58>>
    [] s = ",\"publishedAt\":" -> <<44, 34, 112, 117, 98, 108, 105, 115, 104, 101, 100, 65, 116, 34, 58>>
    [] s = "}"               -> <<125>>

\* the UTF-8 bytes of one code point (Buffer.from(value, "utf8"))
Utf8Char(c) ==
  IF c < 128 THEN <<c>>
  ELSE IF c < 2048 THEN <<192 + (c \div 64), 128 + (c % 64)>>
  ELSE IF c < 65536
       THEN <<224 + (c \div 4096), 128 + ((c \div 64) % 64), 128 + (c % 64)>>
  ELSE <<240 + (c \div 262144), 128 + ((c \div 4096) % 64),
         128 + ((c \div 64) % 64), 128 + (c % 64)>>

\* the UTF-8 bytes of a string, by halves
RECURSIVE Utf8(_)
Utf8(s) ==
  IF Len(s) = 0 THEN <<>>
  ELSE IF Len(s) = 1 THEN Utf8Char(s[1])
  ELSE LET h == Len(s) \div 2
       IN  Utf8(SubSeq(s, 1, h)) \o Utf8(SubSeq(s, h + 1, Len(s)))

encodeUtf8String_mut(value) ==
  LET stringBuf == Utf8(value)
  IN  <<(Len(value) \div 256) % 256, Len(value) % 256>> \o stringBuf

\* [(stringBuf.length >> 8) & 0xff, stringBuf.length & 0xff] ++ stringBuf
encodeUtf8String(value) ==
  LET stringBuf == Utf8(value)
  IN  <<(Len(stringBuf) \div 256) % 256, Len(stringBuf) % 256>> \o stringBuf

RECURSIVE encodeRemainingLength_mut(_)
encodeRemainingLength_mut(length) ==
  LET digit == length % 128
      rest == length \div 128
  IN  IF rest > 0
      THEN <<digit>> \o encodeRemainingLength_mut(rest)
      ELSE <<digit>>

\* do { digit = length % 128; length = floor(length / 128);
\*      if (length > 0) digit |= 0x80; bytes.push(digit) } while (length > 0)
RECURSIVE encodeRemainingLength(_)
encodeRemainingLength(length) ==
  LET digit == length % 128
      rest == length \div 128
  IN  IF rest > 0
      THEN <<digit + 128>> \o encodeRemainingLength(rest)
      ELSE <<digit>>

KEEP_ALIVE_SECONDS == 60

\* Buffer.concat([[0x10, ...remainingLength], variableHeader, payload]) with
\* variableHeader = "MQTT" field, level 0x04, flags 0x02, keep-alive bytes
\* and payload = the client identifier field
buildConnectPacket(clientId) ==
  LET protocolName == encodeUtf8String(Text("MQTT"))
      protocolLevel == <<4>>
      connectFlags == <<2>>
      keepAlive == <<(KEEP_ALIVE_SECONDS \div 256) % 256, KEEP_ALIVE_SECONDS % 256>>
      variableHeader == protocolName \o protocolLevel \o connectFlags \o keepAlive
      payload == encodeUtf8String(clientId)
      remainingLength == encodeRemainingLength(Len(variableHeader) + Len(payload))
  IN  <<16>> \o remainingLength \o variableHeader \o payload

\* topic of a metric: `${MQTT_TOPIC_PREFIX}/${metric.id}`
MQTT_TOPIC_PREFIX == "hmi/metrics"

Topic(id) == Text(MQTT_TOPIC_PREFIX) \o Text("/") \o Text(id)

Topics == {Topic(id) : id \in MetricIds}

\* ------------------------------------------------------------ inbound data
\* the values the byte at offset i of an inbound chunk takes: the packet
\* type (CONNACK 0x20 or another), the remaining length (1 or 2), the
\* acknowledge flags, the return code (0 accepted, 5 refused), then padding
BytesAt(i) ==
  CASE i = 0 -> {32, 48}
    [] i = 1 -> {1, 2}
    [] i = 3 -> {0, 5}
    [] OTHER -> {0}

RECURSIVE ChunksOfLen(_)
ChunksOfLen(n) ==
  IF n = 0 THEN {<<>>}
  ELSE {Append(c, b) : c \in ChunksOfLen(n - 1), b \in BytesAt(n - 1)}

Chunks == UNION {ChunksOfLen(n) : n \in 0..MaxChunk}

AckValid_mut(chunk) == chunk[1] = 32 /\ chunk[2] >= 2 /\ chunk[3] = 0

\* chunk[0] === 0x20 && chunk[1] >= 0x02 && chunk[3] === 0x00
AckValid(chunk) == chunk[1] = 32 /\ chunk[2] >= 2 /\ chunk[4] = 0

\* ------------------------------------------------------------ initial state
NoOp == [op |-> "init", ret |-> "none", wrote |-> FALSE, args |-> <<>>,
         frame |-> <<>>, metric |-> "none", clamped |-> FALSE, resampled |-> FALSE]

\* no encoding function has been called
NoCall == [op |-> "none", arg |-> <<>>, ret |-> "none", out |-> <<>>]

\* the store's state() as defineStore builds it; metrics is the function
\* from the ids present to their entries
EmptyStore ==
  [metrics |-> <<>>, order |-> <<>>, latencySamples |-> <<>>,
   latencyP50 |-> 0, latencyP95 |-> 0, fps |-> 0, renderMs |-> 0, lastFrameAt |-> 0]

\* scripts/compose.sh has not been started
NoRun == [pc |-> "idle", env |-> <<>>, argv |-> <<>>, args |-> <<>>,
          ran |-> <<>>, exit |-> -1]

\* the worker's state object (no canvas, no context, empty map and order,
\* no frame timer); drawn is the text of each cell on the canvas and
\* rendered the metrics a frame has drawn at least once
WorkerState ==
  [canvas |-> "null", ctx |-> FALSE, metrics |-> <<>>, order |-> <<>>,
   frameTimer |-> FALSE, drawn |-> <<>>, rendered |-> {}]

\* metricStates as line 166 builds it, f[id] being the draw for id's target
InitialStates(f) ==
  [id \in MetricIds |->
     [value |-> metrics[id].min,
      target |-> randomInRange(metrics[id].min, metrics[id].max, f[id])]]

Init ==
  /\ socket = 0
  /\ isReady = FALSE
  /\ connectPromise = 0
  /\ promise = [s \in Sockets |-> "none"]
  /\ sockState = [s \in Sockets |-> "none"]
  /\ ended = {}
  /\ wire = <<>>
  /\ metricStates \in {InitialStates(f) : f \in [MetricIds -> Rand]}
  /\ timers = <<>>
  /\ ticked = {}
  /\ proc = "loaded"
  /\ exitCode = -1
  /\ last = NoOp
  /\ codec = NoCall
  /\ mounted = "setup"
  /\ worker = FALSE
  /\ rafHandle = 0
  /\ frameRequested = FALSE
  /\ disconnectMqtt = FALSE
  /\ pendingUpdates = <<>>
  /\ store = EmptyStore
  /\ inbox = <<>>
  /\ clock = 0
  /\ compose = NoRun
  /\ render = WorkerState

\* ------------------------------------------------------------ the socket
\* a settled promise ignores later resolve() and reject() calls
Settle(p, s, outcome) == IF p[s] = "pending" THEN [p EXCEPT ![s] = outcome] ELSE p

\* socket.write(frame) on socket s, socket states st: the frame is accepted
\* (sent, or buffered until the socket connects) unless the writable side
\* has ended or the socket is destroyed
WireAfterWrite(w, st, s, kind) ==
  IF st[s] \in {"opening", "open"} /\ s \notin ended /\ Len(w) < MaxWire
  THEN Append(w, kind)
  ELSE w

\* a write after end() destroys the socket with an error
StateAfterWrite(st, s) ==
  IF st[s] \in {"opening", "open"} /\ s \in ended
  THEN [st EXCEPT ![s] = "destroyed"]
  ELSE st

\* number of the next socket net.createConnection returns
NextId == Cardinality({s \in Sockets : sockState[s] # "none"}) + 1

\* no event emission is in progress, synchronous caller code can run
Callable == \A s \in Sockets : sockState[s] # "errored"

\* ------------------------------------------------------------ SimpleMqttPublisher
HasPending_mut == connectPromise # 0 /\ isReady

\* if (this.connectPromise) return this.connectPromise
HasPending == connectPromise # 0

connect ==
  IF HasPending
  THEN UNCHANGED pubVars
  ELSE /\ NextId <= MaxAttempts
       /\ socket' = NextId
       /\ sockState' = [sockState EXCEPT ![NextId] = "opening"]
       /\ promise' = [promise EXCEPT ![NextId] = "pending"]
       /\ connectPromise' = NextId
       /\ wire' = <<>>
       /\ UNCHANGED <<isReady, ended>>

OnConnect_mut(s) ==
  /\ sockState[s] = "opening"
  /\ sockState' = [sockState EXCEPT ![s] = "open"]
  /\ UNCHANGED <<socket, isReady, connectPromise, promise, ended, wire>>

\* socket.once("connect"): write the connection-request frame
OnConnect(s) ==
  /\ sockState[s] = "opening"
  /\ LET st == [sockState EXCEPT ![s] = "open"]
     IN  IF socket # 0
         THEN /\ wire' = WireAfterWrite(wire, st, socket, "CONNECT")
              /\ sockState' = StateAfterWrite(st, socket)
         ELSE /\ wire' = wire
              /\ sockState' = st
  /\ UNCHANGED <<socket, isReady, connectPromise, promise, ended>>

\* socket.once("error") rejects, socket.on("error") logs
OnError(s) ==
  /\ sockState[s] \in {"opening", "open", "destroyed"}
  /\ promise' = Settle(promise, s, "rejectedErr")
  /\ sockState' = [sockState EXCEPT ![s] = "errored"]
  /\ UNCHANGED <<socket, isReady, connectPromise, ended, wire>>

OnData_mut(s, chunk) ==
  /\ sockState[s] = "open"
  /\ IF ~isReady
     THEN IF Len(chunk) >= 4 /\ AckValid(chunk)
          THEN /\ isReady' = TRUE
               /\ promise' = Settle(promise, s, "fulfilled")
               /\ wire' = IF s = socket /\ Len(wire) < MaxWire
                          THEN Append(wire, "CONNACK")
                          ELSE wire
          ELSE /\ isReady' = isReady
               /\ promise' = Settle(promise, s, "rejectedAck")
               /\ wire' = wire
     ELSE UNCHANGED <<isReady, promise, wire>>
  /\ UNCHANGED <<socket, connectPromise, sockState, ended>>

\* socket.on("data")
OnData(s, chunk) ==
  /\ sockState[s] = "open"
  /\ IF ~isReady /\ Len(chunk) >= 4
     THEN IF AckValid(chunk)
          THEN /\ isReady' = TRUE
               /\ promise' = Settle(promise, s, "fulfilled")
               /\ wire' = IF s = socket /\ Len(wire) < MaxWire
                          THEN Append(wire, "CONNACK")
                          ELSE wire
          ELSE /\ isReady' = isReady
               /\ promise' = Settle(promise, s, "rejectedAck")
               /\ wire' = wire
     ELSE UNCHANGED <<isReady, promise, wire>>
  /\ UNCHANGED <<socket, connectPromise, sockState, ended>>

OnClose_mut(s) ==
  /\ sockState[s] \in {"open", "errored"}
  /\ isReady' = FALSE
  /\ sockState' = [sockState EXCEPT ![s] = "closed"]
  /\ ended' = ended \ {s}
  /\ UNCHANGED <<socket, connectPromise, promise, wire>>

\* socket.on("close")
OnClose(s) ==
  /\ sockState[s] \in {"open", "errored"}
  /\ isReady' = FALSE
  /\ connectPromise' = 0
  /\ sockState' = [sockState EXCEPT ![s] = "closed"]
  /\ ended' = ended \ {s}
  /\ UNCHANGED <<socket, promise, wire>>

NotConnected_mut == socket = 0

\* if (!this.socket || !this.isReady) throw
NotConnected == socket = 0 \/ ~isReady

\* 0x30 | retainFlag | qosFlag
FixedHeader(retain, qos) == 48 + (IF retain THEN 1 ELSE 0) + (IF qos # 0 THEN qos * 2 ELSE 0)

PublishPacket_mut(topic, payload, retain, qos) ==
  LET topicBuffer == encodeUtf8String(topic)
      remainingLength == Len(topicBuffer) + Len(payload)
  IN  <<FixedHeader(retain, qos)>> \o encodeRemainingLength(remainingLength)
        \o topicBuffer \o <<0, 1>> \o payload

\* Buffer.concat([[fixedHeader, ...encodeRemainingLength(remainingLength)],
\*                topicBuffer, payload])
PublishPacket(topic, payload, retain, qos) ==
  LET topicBuffer == encodeUtf8String(topic)
      remainingLength == Len(topicBuffer) + Len(payload)
  IN  <<FixedHeader(retain, qos)>> \o encodeRemainingLength(remainingLength)
        \o topicBuffer \o payload

publish(topic, retain, qos) ==
  IF NotConnected
  THEN UNCHANGED pubVars
  ELSE /\ socket # 0
       /\ wire' = WireAfterWrite(wire, sockState, socket, "PUBLISH")
       /\ sockState' = StateAfterWrite(sockState, socket)
       /\ UNCHANGED <<socket, isReady, connectPromise, promise, ended>>

end_mut ==
  /\ ended' = IF socket # 0 /\ sockState[socket] \in {"opening", "open"}
              THEN ended \cup {socket}
              ELSE ended
  /\ isReady' = FALSE
  /\ connectPromise' = 0
  /\ UNCHANGED <<socket, promise, sockState, wire>>

\* this.socket?.end()
end ==
  /\ ended' = IF socket # 0 /\ sockState[socket] \in {"opening", "open"}
              THEN ended \cup {socket}
              ELSE ended
  /\ UNCHANGED <<socket, isReady, connectPromise, promise, sockState, wire>>

\* ------------------------------------------------------------ Spec
Did(op) == [NoOp EXCEPT !.op = op]

\* the topics and payloads the caller passes to publish(): a metric's topic
\* and a topic with a two-byte character; the empty payload and one that
\* takes the remaining length to two bytes
TopicsIn == {Topic("gear"), <<116, 233>>}

PayloadsIn == {<<>>, [i \in 1..LongPayload |-> 120]}

CallConnect ==
  /\ Callable
  /\ connect
  /\ last' = [Did("connect") EXCEPT !.ret = connectPromise']
  /\ UNCHANGED <<simVars, extVars>>

CallPublish ==
  /\ Callable
  /\ \E topic \in TopicsIn, payload \in PayloadsIn, retain \in BOOLEAN, qos \in 0..2 :
       /\ publish(topic, retain, qos)
       /\ last' = [Did("publish") EXCEPT
                     !.ret = IF NotConnected THEN "NotConnected" ELSE "ok",
                     !.wrote = ~NotConnected,
                     !.args = <<topic, payload, retain, qos>>,
                     !.frame = IF NotConnected THEN <<>>
                               ELSE PublishPacket(topic, payload, retain, qos)]
  /\ UNCHANGED <<simVars, extVars>>

CallEnd ==
  /\ Callable
  /\ end
  /\ last' = Did("end")
  /\ UNCHANGED <<simVars, extVars>>

SocketConnect ==
  \E s \in Sockets :
    /\ Callable
    /\ OnConnect(s)
    /\ last' = [Did("onConnect") EXCEPT !.wrote = TRUE]
    /\ UNCHANGED <<simVars, extVars>>

SocketError ==
  \E s \in Sockets :
    /\ OnError(s)
    /\ last' = Did("onError")
    /\ UNCHANGED <<simVars, extVars>>

SocketData ==
  \E s \in Sockets, chunk \in Chunks :
    /\ Callable
    /\ OnData(s, chunk)
    /\ last' = Did("onData")
    /\ UNCHANGED <<simVars, extVars>>

SocketClose ==
  \E s \in Sockets :
    /\ OnClose(s)
    /\ last' = Did("onClose")
    /\ UNCHANGED <<simVars, extVars>>

Next ==
  \/ CallConnect
  \/ CallPublish
  \/ CallEnd
  \/ SocketConnect
  \/ SocketError
  \/ SocketData
  \/ SocketClose

\* the publisher under an arbitrary caller; the metric table is not touched
PubInit == Init /\ metricStates = InitialStates([id \in MetricIds |-> 0])

Spec == PubInit /\ [][Next]_vars

\* ------------------------------------------------------------ CodecSpec
\* the two encoding functions applied to arguments of every size they can be
\* given. A string argument is held as a short text and the number of times
\* it is repeated; of an encoded field the state keeps the two length bytes
\* and the number of bytes that follow them. The functions keep no state:
\* a behaviour is one call.
outsideCodec == <<pubVars, simVars, last, dashVars, compose, render>>

Alphabet == {97, 233, 8364, 128512}

RECURSIVE TextsOfLen(_)
TextsOfLen(n) ==
  IF n = 0 THEN {<<>>}
  ELSE {Append(t, c) : t \in TextsOfLen(n - 1), c \in Alphabet}

StringsIn ==
  {[text |-> t, times |-> 1] : t \in UNION {TextsOfLen(n) : n \in 0..MaxStr}}
    \cup {[text |-> <<97>>, times |-> n] : n \in {65535, 65536, 65537, 70000}}
    \cup {[text |-> <<97, 233>>, times |-> n] : n \in {21845, 21846}}

LengthsIn ==
  (0..MaxLength) \cup {16383, 16384, 2097151, 2097152, 268435455, 268435456}

\* the string a descriptor stands for
StringOf(d) == [i \in 1..(Len(d.text) * d.times) |-> d.text[((i - 1) % Len(d.text)) + 1]]

EncodeUtf8String ==
  /\ codec = NoCall
  /\ \E d \in StringsIn :
       LET field == encodeUtf8String(StringOf(d))
       IN  codec' = [op |-> "encodeUtf8String", arg |-> d, ret |-> "ok",
                     out |-> [len |-> SubSeq(field, 1, 2),
                              following |-> Len(field) - 2]]
  /\ UNCHANGED outsideCodec

EncodeRemainingLength ==
  /\ codec = NoCall
  /\ \E length \in LengthsIn :
       codec' = [op |-> "encodeRemainingLength", arg |-> length, ret |-> "ok",
                 out |-> encodeRemainingLength(length)]
  /\ UNCHANGED outsideCodec

\* client identifiers: the short texts, the longest one whose frame has a
\* one-byte remaining length (115 bytes), the next one, and the long strings
ClientIdsIn ==
  StringsIn \cup {[text |-> <<97>>, times |-> n] : n \in {115, 116}}

\* of the frame the state keeps everything up to the identifier's bytes and
\* the number of bytes of the whole frame
BuildConnectPacket ==
  /\ codec = NoCall
  /\ \E d \in ClientIdsIn :
       LET clientId == StringOf(d)
           frame == buildConnectPacket(clientId)
       IN  codec' = [op |-> "buildConnectPacket", arg |-> d, ret |-> "ok",
                     out |-> [head |-> SubSeq(frame, 1, Len(frame) - Len(Utf8(clientId))),
                              length |-> Len(frame)]]
  /\ UNCHANGED outsideCodec

CodecNext ==
  \/ EncodeUtf8String
  \/ EncodeRemainingLength
  \/ BuildConnectPacket

CodecSpec == PubInit /\ [][CodecNext]_vars

\* ------------------------------------------------------------ metric generator
\* the state of metric m after one tick; k1 is the generator's draw and k2
\* the draw of the target resampling
TickState(m, state, k1, k2) ==
  LET value == clamp(generator(m, state.value, state.target, k1), m.min, m.max)
  IN  [value |-> value,
       target |-> IF ShouldResample(m, value, state.target)
                  THEN randomInRange(m.min, m.max, k2)
                  ELSE state.target]

\* the decimal digits of n >= 0
RECURSIVE Digits(_)
Digits(n) == IF n < 10 THEN <<48 + n>> ELSE Append(Digits(n \div 10), 48 + (n % 10))

\* the digits after the decimal point of frac/scale, trailing zeros dropped
RECURSIVE FracDigits(_, _)
FracDigits(frac, scale) ==
  IF frac = 0 THEN <<>>
  ELSE <<48 + (frac \div (scale \div 10))>>
         \o FracDigits(frac % (scale \div 10), scale \div 10)

\* JSON text of Number(value.toFixed(precision)), value being v/scale
NumberText(v, scale) ==
  (IF v < 0 THEN Text("-") ELSE <<>>)
    \o Digits(Abs(v) \div scale)
    \o (IF Abs(v) % scale = 0 THEN <<>>
        ELSE Text(".") \o FracDigits(Abs(v) % scale, scale))

\* a reading of Date.now(), as its decimal digits
DateNow == <<49, 55, 49, 50, 52, 49, 57, 50, 48, 48, 48, 48, 48>>

\* Buffer.from(JSON.stringify({id, label, unit, value, publishedAt}))
JsonPayload(m, value, now) ==
  Utf8(Text("{\"id\":\"") \o Text(m.id)
         \o Text("\",\"label\":\"") \o Text(m.label)
         \o Text("\",\"unit\":\"") \o Text(m.unit)
         \o Text("\",\"value\":") \o NumberText(RoundDiv(value * m.digits, m.scale), m.digits)
         \o Text(",\"publishedAt\":") \o now \o Text("}"))

MetricFrame_mut(m, value) ==
  PublishPacket(Topic(m.id), JsonPayload(m, value, DateNow), FALSE, 1)

\* the frame of a tick that leaves metric m at value:
\* publish(topic, Buffer.from(JSON.stringify(payload)), {retain: true, qos: 0})
MetricFrame(m, value) ==
  PublishPacket(Topic(m.id), JsonPayload(m, value, DateNow), TRUE, 0)

\* MetricFrame over a metric's range, computed once
MetricFrames ==
  [id \in MetricIds |->
     [v \in metrics[id].min..metrics[id].max |-> MetricFrame(metrics[id], v)]]

FrameOf(m, value) ==
  IF m.id \in MetricIds /\ value \in DOMAIN MetricFrames[m.id]
  THEN MetricFrames[m.id][value]
  ELSE MetricFrame(m, value)

\* the draws of the target resampling after the generator drew k1:
\* Math.random() is called again only when the target is resampled
TargetDraws(m, k1) ==
  IF ShouldResample(m, clamp(generator(m, metricStates[m.id].value,
                                       metricStates[m.id].target, k1), m.min, m.max),
                    metricStates[m.id].target)
  THEN Rand
  ELSE {0}

publishMetric_mut(m, k1, k2) ==
  /\ metricStates' = [id \in MetricIds |->
                        IF id = m.id THEN TickState(m, metricStates[id], k1, k2)
                        ELSE [metricStates[id] EXCEPT !.target = metricStates[id].value]]
  /\ ticked' = ticked \cup {m.id}
  /\ publish(Topic(m.id), TRUE, 0)

\* publishMetric: advance the state, then publish retained with QoS 0
publishMetric(m, k1, k2) ==
  /\ metricStates' = [metricStates EXCEPT ![m.id] = TickState(m, @, k1, k2)]
  /\ ticked' = ticked \cup {m.id}
  /\ publish(Topic(m.id), TRUE, 0)

\* what a tick of metric m leaves in last
DidTick(op, m, k1) ==
  [Did(op) EXCEPT
     !.metric = m.id,
     !.ret = IF NotConnected THEN "NotConnected" ELSE "ok",
     !.wrote = ~NotConnected,
     !.frame = IF NotConnected THEN <<>>
               ELSE FrameOf(m, metricStates'[m.id].value),
     !.clamped = generator(m, metricStates[m.id].value, metricStates[m.id].target, k1)
                   # metricStates'[m.id].value,
     !.resampled = ShouldResample(m, metricStates'[m.id].value, metricStates[m.id].target)]

\* ------------------------------------------------------------ simulator process
\* a settled connect() promise whose .then/.catch reaction has not run yet
ReactionPending == proc = "waiting" /\ promise[1] # "pending" /\ Callable

\* the event loop is between callbacks
SimIdle == proc \in {"waiting", "running"} /\ ~ReactionPending

\* publisher.connect().then(...).catch(...)
Main ==
  /\ proc = "loaded"
  /\ connect
  /\ last' = [Did("main") EXCEPT !.ret = connectPromise']
  /\ proc' = "waiting"
  /\ UNCHANGED <<metricStates, timers, ticked, exitCode>>
  /\ UNCHANGED extVars

SimSocketConnect == SimIdle /\ SocketConnect

SimSocketError == SimIdle /\ SocketError

SimSocketData == SimIdle /\ SocketData

\* the close event follows the error event in the same emission
SimSocketClose == (SimIdle \/ ~Callable) /\ proc \in {"waiting", "running"} /\ SocketClose

ThenConnected_mut ==
  /\ ReactionPending
  /\ proc' = "registering"
  /\ last' = Did("then")
  /\ UNCHANGED pubVars
  /\ UNCHANGED <<metricStates, timers, ticked, exitCode>>
  /\ UNCHANGED extVars

\* .then(() => { console.log(...); metrics.forEach(...) })
ThenConnected ==
  /\ ReactionPending
  /\ promise[1] = "fulfilled"
  /\ proc' = "registering"
  /\ last' = Did("then")
  /\ UNCHANGED pubVars
  /\ UNCHANGED <<metricStates, timers, ticked, exitCode>>
  /\ UNCHANGED extVars

\* Math.max(1000 / metric.frequency, 10), to the nearest millisecond
IntervalMs(m) == Max2(RoundDiv(1000, m.frequency), 10)

StartMetricTimer_mut ==
  /\ proc = "registering"
  /\ LET i == Len(timers) + 1
         m == metrics[metricOrder[i]]
     IN  /\ timers' = Append(timers, [id |-> m.id, intervalMs |-> IntervalMs(m)])
         /\ last' = [Did("startMetricTimer") EXCEPT !.metric = m.id]
         /\ proc' = IF i = Len(metricOrder) THEN "running" ELSE "registering"
  /\ UNCHANGED pubVars
  /\ UNCHANGED <<metricStates, ticked, exitCode>>
  /\ UNCHANGED extVars

\* startMetricTimer of the next metric of metrics.forEach; a throw leaves
\* the loop and rejects the chain
StartMetricTimer ==
  /\ proc = "registering"
  /\ LET i == Len(timers) + 1
         m == metrics[metricOrder[i]]
     IN  /\ timers' = Append(timers, [id |-> m.id, intervalMs |-> IntervalMs(m)])
         /\ \E k1 \in Rand : \E k2 \in TargetDraws(m, k1) :
              /\ publishMetric(m, k1, k2)
              /\ last' = DidTick("startMetricTimer", m, k1)
         /\ proc' = IF NotConnected THEN "thenThrew"
                    ELSE IF i = Len(metricOrder) THEN "running"
                    ELSE "registering"
  /\ UNCHANGED exitCode
  /\ UNCHANGED extVars

\* .catch((err) => { console.error(...); process.exit(1) })
CatchExit ==
  /\ \/ ReactionPending /\ promise[1] \in {"rejectedErr", "rejectedAck"}
     \/ proc = "thenThrew"
  /\ proc' = "exited"
  /\ exitCode' = 1
  /\ last' = Did("catch")
  /\ UNCHANGED pubVars
  /\ UNCHANGED <<metricStates, timers, ticked>>
  /\ UNCHANGED extVars

\* a setInterval expiry: publishMetric(metric); an exception thrown out of
\* the timer callback is uncaught and ends the process
TimerTick(i) ==
  /\ proc = "running"
  /\ Callable
  /\ \E k1 \in Rand : \E k2 \in TargetDraws(metrics[timers[i].id], k1) :
       /\ publishMetric(metrics[timers[i].id], k1, k2)
       /\ last' = DidTick("timer", metrics[timers[i].id], k1)
  /\ proc' = IF NotConnected THEN "crashed" ELSE proc
  /\ exitCode' = IF NotConnected THEN 1 ELSE exitCode
  /\ UNCHANGED timers
  /\ UNCHANGED extVars

\* the timers expire independently of one another
TimerFire == \E i \in 1..Len(timers) : TimerTick(i)

\* the timers are unref'd: with the socket closed nothing keeps the event
\* loop alive and the process ends
LoopDrain ==
  /\ SimIdle
  /\ socket # 0
  /\ sockState[socket] = "closed"
  /\ proc' = "exited"
  /\ exitCode' = 0
  /\ last' = Did("drain")
  /\ UNCHANGED pubVars
  /\ UNCHANGED <<metricStates, timers, ticked>>
  /\ UNCHANGED extVars

\* process.on("SIGINT", () => { publisher.end(); process.exit(0) })
Sigint ==
  /\ SimIdle
  /\ Callable
  /\ end
  /\ proc' = "exited"
  /\ exitCode' = 0
  /\ last' = Did("sigint")
  /\ UNCHANGED <<metricStates, timers, ticked>>
  /\ UNCHANGED extVars

SimNext ==
  \/ Main
  \/ SimSocketConnect
  \/ SimSocketError
  \/ SimSocketData
  \/ SimSocketClose
  \/ ThenConnected
  \/ StartMetricTimer
  \/ CatchExit
  \/ TimerFire
  \/ LoopDrain
  \/ Sigint

SimSpec == Init /\ [][SimNext]_vars

\* ------------------------------------------------------------ accumulating metrics
\* the timers of odometer and trip in the running simulator. A run of the
\* program needs millions of ticks from 0 to max; the ticks are followed
\* while a value is within MaxAcc steps of its start or of max, and the
\* start states are the ones of a connected simulator whose accumulating
\* values are at min or MaxAcc steps below max.
AccStates ==
  {[id \in AccIds |-> [value |-> v[id],
                       target |-> randomInRange(accumulating[id].min,
                                                accumulating[id].max, f[id])]] :
     v \in [AccIds -> {0, 1}], f \in [AccIds -> Rand]}

AccStart(st) ==
  [id \in AccIds |->
     [st[id] EXCEPT !.value = IF st[id].value = 0 THEN accumulating[id].min
                              ELSE accumulating[id].max - MaxAcc]]

AccInit ==
  /\ socket = 1
  /\ isReady = TRUE
  /\ connectPromise = 1
  /\ promise = [s \in Sockets |-> IF s = 1 THEN "fulfilled" ELSE "none"]
  /\ sockState = [s \in Sockets |-> IF s = 1 THEN "open" ELSE "none"]
  /\ ended = {}
  /\ wire = <<"CONNECT", "CONNACK">>
  /\ metricStates \in {AccStart(st) : st \in AccStates}
  /\ timers = <<[id |-> "odometer", intervalMs |-> IntervalMs(accumulating["odometer"])],
                [id |-> "trip", intervalMs |-> IntervalMs(accumulating["trip"])]>>
  /\ ticked = AccIds
  /\ proc = "running"
  /\ exitCode = -1
  /\ last = NoOp
  /\ codec = NoCall
  /\ mounted = "setup"
  /\ worker = FALSE
  /\ rafHandle = 0
  /\ frameRequested = FALSE
  /\ disconnectMqtt = FALSE
  /\ pendingUpdates = <<>>
  /\ store = EmptyStore
  /\ inbox = <<>>
  /\ clock = 0
  /\ compose = NoRun
  /\ render = WorkerState

\* a setInterval expiry of an accumulating metric: publishMetric(metric)
AccTick(i) ==
  LET m == accumulating[timers[i].id]
  IN  /\ proc = "running"
      /\ Callable
      /\ \/ metricStates[m.id].value < m.min + MaxAcc
         \/ metricStates[m.id].value >= m.max - MaxAcc
      /\ \E k1 \in Rand : \E k2 \in TargetDraws(m, k1) :
           /\ publishMetric(m, k1, k2)
           /\ last' = DidTick("timer", m, k1)
      /\ proc' = IF NotConnected THEN "crashed" ELSE proc
      /\ exitCode' = IF NotConnected THEN 1 ELSE exitCode
      /\ UNCHANGED timers
      /\ UNCHANGED extVars

AccNext == \E i \in 1..Len(timers) : AccTick(i)

AccSpec == AccInit /\ [][AccNext]_vars

\* ------------------------------------------------------------ metrics store
LATENCY_WINDOW == 600

\* the samples whose value is in values, in ascending order: those equal to
\* the least value first (in the order they have in seq), then the rest
RECURSIVE SortedOver(_, _)
SortedOver(seq, values) ==
  IF values = {} THEN <<>>
  ELSE LET least == CHOOSE v \in values : \A w \in values : v <= w
       IN  SelectSeq(seq, LAMBDA x : x = least) \o SortedOver(seq, values \ {least})

\* [...samples].sort((a, b) => a - b)
Sorted(seq) == SortedOver(seq, {seq[i] : i \in 1..Len(seq)})

\* names every object inherits from Object.prototype (constructor, toString,
\* valueOf, hasOwnProperty, ...): metrics starts as {} and metrics[name]
\* reads the inherited function while the object has no entry of that name
ObjectPrototypeKeys == {"constructor"}

\* const existing = this.metrics[update.id]; !existing
NoExisting(ms, id) == id \notin DOMAIN ms /\ id \notin ObjectPrototypeKeys

\* the first loop of applyUpdates: each update replaces its metric's entry;
\* the result is the metrics map and the ids that had no entry, in order
\* (the loop over a long batch is taken by halves, the first half's map
\* being worked out, never empty, before the second half starts from it)
RECURSIVE AssignAll(_, _, _, _)
AssignAll(ms, newIds, updates, frameTime) ==
  IF updates = <<>> THEN [metrics |-> ms, newIds |-> newIds]
  ELSE IF Len(updates) = 1
  THEN LET update == updates[1]
           entry == [id |-> update.id, label |-> update.label, unit |-> update.unit,
                     value |-> update.value, publishedAt |-> update.publishedAt,
                     lastUpdated |-> frameTime]
       IN  [metrics |-> (update.id :> entry) @@ ms,
            newIds |-> IF NoExisting(ms, update.id)
                       THEN Append(newIds, update.id) ELSE newIds]
  ELSE LET half == Len(updates) \div 2
           first == AssignAll(ms, newIds, SubSeq(updates, 1, half), frameTime)
       IN  IF DOMAIN first.metrics = {} THEN first
           ELSE AssignAll(first.metrics, first.newIds,
                          SubSeq(updates, half + 1, Len(updates)), frameTime)

\* for (const id of newIds) if (!this.order.includes(id)) this.order.push(id)
RECURSIVE PushNew(_, _)
PushNew(order, newIds) ==
  IF newIds = <<>> THEN order
  ELSE PushNew(IF \E i \in 1..Len(order) : order[i] = newIds[1]
               THEN order ELSE Append(order, newIds[1]),
               Tail(newIds))

Window_mut(samples) ==
  IF Len(samples) > LATENCY_WINDOW
  THEN SubSeq(samples, 1, LATENCY_WINDOW)
  ELSE samples

\* the last LATENCY_WINDOW samples
Window(samples) ==
  IF Len(samples) > LATENCY_WINDOW
  THEN SubSeq(samples, Len(samples) - LATENCY_WINDOW + 1, Len(samples))
  ELSE samples

\* sorted[Math.floor(sorted.length * num / 100)] ?? previous
Percentile(samples, num, previous) ==
  LET sorted == Sorted(samples)
      index == (Len(sorted) * num) \div 100
  IN  IF index < Len(sorted) THEN sorted[index + 1] ELSE previous

\* metricsStore.applyUpdates(updates, frameTime)
applyUpdates(st, updates, frameTime) ==
  IF updates = <<>> THEN st
  ELSE LET assigned == AssignAll(st.metrics, <<>>, updates, frameTime)
           samples == Window(st.latencySamples
                        \o [i \in 1..Len(updates) |->
                              Max2(0, frameTime - updates[i].publishedAt)])
       IN  [st EXCEPT
              !.metrics = assigned.metrics,
              !.order = PushNew(@, assigned.newIds),
              !.latencySamples = samples,
              !.latencyP50 = Percentile(samples, 50, @),
              !.latencyP95 = Percentile(samples, 95, @)]

\* ------------------------------------------------------------ StoreSpec
\* applyUpdates called on the store with batches of every size around the
\* latency window. A batch is held as its size and the phase of its
\* publishedAt pattern; MaxCalls calls are followed.
outsideStore == <<pubVars, simVars, codec, compose, render, mounted, worker,
                  rafHandle, frameRequested, disconnectMqtt, pendingUpdates, inbox>>

BatchSizes ==
  {0, 1, 2, LATENCY_WINDOW - 1, LATENCY_WINDOW, LATENCY_WINDOW + 1,
   2 * LATENCY_WINDOW + 1}

BatchesIn == {[n |-> n, phase |-> p] : n \in BatchSizes, p \in 0..2}

\* the batch a descriptor stands for: the two metrics in turn, every third
\* update published two clock units later than the others
BatchOf(d) ==
  [i \in 1..d.n |->
     [id |-> IF i % 2 = 0 THEN "gear" ELSE "fuelLevel",
      label |-> IF i % 2 = 0 THEN "Gear" ELSE "Fuel",
      unit |-> IF i % 2 = 0 THEN "" ELSE "%",
      value |-> 1,
      publishedAt |-> IF (i + d.phase) % 3 = 0 THEN 2 ELSE 0]]

ApplyUpdates ==
  /\ clock < MaxCalls
  /\ \E d \in BatchesIn :
       /\ store' = applyUpdates(store, BatchOf(d), clock + 1)
       /\ last' = [Did("applyUpdates") EXCEPT !.args = <<d>>]
  /\ clock' = clock + 1
  /\ UNCHANGED outsideStore

StoreNext == ApplyUpdates

StoreSpec == PubInit /\ [][StoreNext]_vars

\* ------------------------------------------------------------ dashboard App
outsideDash == <<pubVars, simVars, codec, compose, render>>

\* the metrics the MQTT client hands to onMetric
PayloadIds == {"gear", "fuelLevel"}

\* the simulator's payloads, and one of another publisher whose metric is
\* named "constructor" (label defaulted to the id, unit to "")
MetricPayloads ==
  {[id |-> id, label |-> metrics[id].label, unit |-> metrics[id].unit,
    value |-> v, publishedAt |-> t] : id \in PayloadIds, v \in 1..2, t \in {0, 2}}
    \cup {[id |-> "constructor", label |-> "constructor", unit |-> "",
           value |-> 1, publishedAt |-> 0]}

\* updates.map((update) => ({ id, label, unit, value }))
Forwarded(updates) ==
  [i \in 1..Len(updates) |->
     [id |-> updates[i].id, label |-> updates[i].label,
      unit |-> updates[i].unit, value |-> updates[i].value]]

\* onMounted; without a canvas element nothing is set up
Mount ==
  /\ mounted = "setup"
  /\ mounted' = "mounted"
  /\ \E canvas \in BOOLEAN :
       /\ last' = [Did("onMounted") EXCEPT !.args = <<canvas>>]
       /\ IF canvas
          THEN /\ worker' = TRUE
               /\ inbox' = inbox \o <<[type |-> "init"], [type |-> "resize"]>>
               /\ disconnectMqtt' = TRUE
               /\ rafHandle' = 1
               /\ frameRequested' = TRUE
          ELSE UNCHANGED <<worker, inbox, disconnectMqtt, rafHandle, frameRequested>>
  /\ UNCHANGED <<pendingUpdates, store, clock>>
  /\ UNCHANGED outsideDash

\* onMetric: (metric) => { pendingUpdates.push(metric) }, called by the
\* client's message handler while the client lives
OnMetric ==
  /\ disconnectMqtt
  /\ Len(pendingUpdates) + Len(store.latencySamples) < MaxMsgs
  /\ \E metric \in MetricPayloads :
       /\ pendingUpdates' = Append(pendingUpdates, metric)
       /\ last' = [Did("onMetric") EXCEPT !.args = <<metric>>]
  /\ UNCHANGED <<mounted, worker, rafHandle, frameRequested, disconnectMqtt,
                 store, inbox, clock>>
  /\ UNCHANGED outsideDash

flushFrame_mut ==
  /\ pendingUpdates' = pendingUpdates
  /\ IF pendingUpdates # <<>>
     THEN /\ clock' = clock + 1
          /\ store' = applyUpdates(store, pendingUpdates, clock + 1)
          /\ inbox' = IF worker
                       THEN Append(inbox, [type |-> "metrics",
                                           updates |-> Forwarded(pendingUpdates),
                                           order |-> store'.order])
                       ELSE inbox
     ELSE UNCHANGED <<clock, store, inbox>>
  /\ rafHandle' = 1
  /\ frameRequested' = TRUE

\* flushFrame: take the whole queue, apply it to the store, post it to the
\* worker, request the next frame
flushFrame ==
  /\ pendingUpdates' = <<>>
  /\ IF pendingUpdates # <<>>
     THEN /\ clock' = clock + 1
          /\ store' = applyUpdates(store, pendingUpdates, clock + 1)
          /\ inbox' = IF worker
                       THEN Append(inbox, [type |-> "metrics",
                                           updates |-> Forwarded(pendingUpdates),
                                           order |-> store'.order])
                       ELSE inbox
     ELSE UNCHANGED <<clock, store, inbox>>
  /\ rafHandle' = 1
  /\ frameRequested' = TRUE

\* the browser runs the requested animation-frame callback
AnimationFrame ==
  /\ frameRequested
  /\ flushFrame
  /\ last' = [Did("flushFrame") EXCEPT !.wrote = (pendingUpdates # <<>> /\ worker)]
  /\ UNCHANGED <<mounted, worker, disconnectMqtt>>
  /\ UNCHANGED outsideDash

\* onUnmounted
Unmount ==
  /\ mounted = "mounted"
  /\ mounted' = "unmounted"
  /\ frameRequested' = IF rafHandle # 0 THEN FALSE ELSE frameRequested
  /\ worker' = FALSE
  /\ disconnectMqtt' = FALSE
  /\ last' = Did("onUnmounted")
  /\ UNCHANGED <<rafHandle, pendingUpdates, store, inbox, clock>>
  /\ UNCHANGED outsideDash

DashNext ==
  \/ Mount
  \/ OnMetric
  \/ AnimationFrame
  \/ Unmount

DashSpec == PubInit /\ [][DashNext]_vars

\* ------------------------------------------------------------ MQTT client
\* the message handler connectMqtt registers, with App's onMetric or one that
\* throws. A JSON value is held as its kind and content; Date.now() is clock.
outsideMqtt == <<pubVars, simVars, codec, compose, render, store, inbox, clock>>

\* Number.NaN among the model's numbers; the other values are integers
NaN == -1

Json(kind, v) == [kind |-> kind, v |-> v]

\* reading a property that is not there
Undefined == Json("undefined", 0)

\* the payloads received, as payload.toString() gives them
Payloads ==
  {"{\"id\":\"gear\",\"label\":\"Gear\",\"unit\":\"\",\"value\":3,\"publishedAt\":2}",
   "{\"id\":\"fuelLevel\"}",
   "{\"id\":\"gear\",\"label\":null,\"unit\":null,\"value\":\"abc\",\"publishedAt\":null}",
   "{\"id\":\"fuelLevel\",\"unit\":\"%\",\"value\":\"2\",\"publishedAt\":true}",
   "{\"id\":\"\",\"value\":3}",
   "{\"id\":null,\"value\":3}",
   "{\"id\":0,\"value\":3}",
   "{\"label\":\"Gear\",\"value\":3}",
   "{}",
   "[]",
   "null",
   "0",
   "\"gear\"",
   "",
   "{\"id\":\"gear\"",
   "gear=3"}

\* JSON.parse(text) on the payloads above; a text that is not JSON throws
\* a SyntaxError
JSONParse(text) ==
  CASE text = "{\"id\":\"gear\",\"label\":\"Gear\",\"unit\":\"\",\"value\":3,\"publishedAt\":2}"
         -> Json("object", [id |-> Json("string", "gear"), label |-> Json("string", "Gear"),
                            unit |-> Json("string", ""), value |-> Json("number", 3),
                            publishedAt |-> Json("number", 2)])
    [] text = "{\"id\":\"fuelLevel\"}"
         -> Json("object", [id |-> Json("string", "fuelLevel")])
    [] text = "{\"id\":\"gear\",\"label\":null,\"unit\":null,\"value\":\"abc\",\"publishedAt\":null}"
         -> Json("object", [id |-> Json("string", "gear"), label |-> Json("null", 0),
                            unit |-> Json("null", 0), value |-> Json("string", "abc"),
                            publishedAt |-> Json("null", 0)])
    [] text = "{\"id\":\"fuelLevel\",\"unit\":\"%\",\"value\":\"2\",\"publishedAt\":true}"
         -> Json("object", [id |-> Json("string", "fuelLevel"), unit |-> Json("string", "%"),
                            value |-> Json("string", "2"),
                            publishedAt |-> Json("boolean", TRUE)])
    [] text = "{\"id\":\"\",\"value\":3}"
         -> Json("object", [id |-> Json("string", ""), value |-> Json("number", 3)])
    [] text = "{\"id\":null,\"value\":3}"
         -> Json("object", [id |-> Json("null", 0), value |-> Json("number", 3)])
    [] text = "{\"id\":0,\"value\":3}"
         -> Json("object", [id |-> Json("number", 0), value |-> Json("number", 3)])
    [] text = "{\"label\":\"Gear\",\"value\":3}"
         -> Json("object", [label |-> Json("string", "Gear"), value |-> Json("number", 3)])
    [] text = "{}" -> Json("object", <<>>)
    [] text = "[]" -> Json("array", <<>>)
    [] text = "null" -> Json("null", 0)
    [] text = "0" -> Json("number", 0)
    [] text = "\"gear\"" -> Json("string", "gear")
    [] OTHER -> Json("SyntaxError", 0)

\* the value as a condition: null, undefined, 0, NaN, "" and false fail it
Truthy(x) ==
  CASE x.kind \in {"null", "undefined"} -> FALSE
    [] x.kind = "number" -> x.v # 0 /\ x.v # NaN
    [] x.kind = "string" -> x.v # ""
    [] x.kind = "boolean" -> x.v
    [] OTHER -> TRUE

\* x.key: an own property of an object; no other value of these payloads
\* has a property of the names read
Get(x, key) ==
  IF x.kind = "object" /\ key \in DOMAIN x.v THEN x.v[key] ELSE Undefined

\* x ?? y
Coalesce(x, y) == IF x.kind \in {"null", "undefined"} THEN y ELSE x

\* Number(x)
ToNumber(x) ==
  CASE x.kind = "number" -> x.v
    [] x.kind = "string" -> IF x.v = "" THEN 0 ELSE IF x.v = "2" THEN 2 ELSE NaN
    [] x.kind = "boolean" -> IF x.v THEN 1 ELSE 0
    [] x.kind = "null" -> 0
    [] x.kind = "array" -> 0
    [] OTHER -> NaN

\* the body of the try block: the metrics onMetric was called with, and
\* whether an exception left the block (throws: the callback throws)
TryBlock(payload, now, throws) ==
  LET decoded == JSONParse(payload)
      id == Get(decoded, "id")
  IN  IF decoded.kind = "SyntaxError" THEN [calls |-> <<>>, threw |-> TRUE]
      ELSE IF Truthy(decoded) /\ Truthy(id)
      THEN [calls |-> <<[id |-> id.v,
                         label |-> Coalesce(Get(decoded, "label"), id).v,
                         unit |-> Coalesce(Get(decoded, "unit"), Json("string", "")).v,
                         value |-> ToNumber(Coalesce(Get(decoded, "value"), Json("number", 0))),
                         publishedAt |-> ToNumber(Coalesce(Get(decoded, "publishedAt"),
                                                           Json("number", now)))]>>,
            threw |-> throws]
      ELSE [calls |-> <<>>, threw |-> FALSE]

OnMessage_mut(payload, now, throws) ==
  LET body == TryBlock(payload, now, throws)
  IN  [calls |-> body.calls, logged |-> FALSE, raised |-> body.threw]

\* client.on("message", ...): an exception of the try block is logged
OnMessage(payload, now, throws) ==
  LET body == TryBlock(payload, now, throws)
  IN  [calls |-> body.calls, logged |-> body.threw, raised |-> FALSE]

\* a message arrives while the client lives; App's onMetric pushes the
\* metric on pendingUpdates unless it throws
Message ==
  /\ disconnectMqtt
  /\ Len(pendingUpdates) < MaxMsgs
  /\ \E payload \in Payloads, throws \in BOOLEAN :
       LET handled == OnMessage(payload, clock, throws)
       IN  /\ pendingUpdates' = IF throws THEN pendingUpdates
                                 ELSE pendingUpdates \o handled.calls
           /\ last' = [calls |-> handled.calls, logged |-> handled.logged]
                         @@ [Did("message") EXCEPT
                               !.args = <<payload, throws>>,
                               !.ret = IF handled.raised THEN "raised" ELSE "returned"]
  /\ UNCHANGED <<mounted, worker, rafHandle, frameRequested, disconnectMqtt>>
  /\ UNCHANGED outsideMqtt

MqttNext ==
  \/ Mount
  \/ Message

MqttSpec == PubInit /\ [][MqttNext]_vars

\* ------------------------------------------------------------ render worker
outsideWorker == <<pubVars, simVars, codec, dashVars, compose>>

\* Number.isFinite(x)
IsFinite(x) == x # NaN

\* a !== b
StrictNotEqual(a, b) == a # b \/ a = NaN \/ b = NaN

\* the updates App forwards: gear under two labels and with a value that
\* is not a number (Number("n/a") in the MQTT handler), fuelLevel
WorkerUpdates ==
  {[id |-> "gear", label |-> l, unit |-> "", value |-> v] :
     l \in {"Gear", "G"}, v \in {1, 2, NaN}}
    \cup {[id |-> "fuelLevel", label |-> "Fuel", unit |-> "%", value |-> 1]}

RECURSIVE UpdatesOfLen(_)
UpdatesOfLen(n) ==
  IF n = 0 THEN {<<>>}
  ELSE {Append(us, u) : us \in UpdatesOfLen(n - 1), u \in WorkerUpdates}

\* App sends the store's order: every id seen so far, in first-seen order
OrderWith(order, updates) ==
  PushNew(order, [i \in 1..Len(updates) |-> updates[i].id])

\* resizeCanvas: with a context the canvas is cleared and every metric
\* marked dirty; kind "nocontext" is a canvas whose getContext gives null
resizeCanvas(r) ==
  IF r.canvas # "context" THEN r
  ELSE [r EXCEPT !.ctx = TRUE,
                 !.drawn = <<>>,
                 !.metrics = [id \in DOMAIN @ |-> [@[id] EXCEPT !.dirty = TRUE]]]

\* case "init": canvas, initializeCanvas(), startLoop()
OnInit ==
  /\ render.canvas = "null"
  /\ \E kind \in {"context", "nocontext"} :
       render' = [resizeCanvas([render EXCEPT !.canvas = kind]) EXCEPT !.frameTimer = TRUE]
  /\ last' = Did("init")
  /\ UNCHANGED outsideWorker

\* case "resize"
OnResize ==
  /\ render.frameTimer
  /\ render' = resizeCanvas(render)
  /\ last' = Did("resize")
  /\ UNCHANGED outsideWorker

\* the loop over data.updates
RECURSIVE ApplyToVisuals(_, _)
ApplyToVisuals(ms, updates) ==
  IF updates = <<>> THEN ms
  ELSE LET update == updates[1]
           visual ==
             IF update.id \in DOMAIN ms
             THEN [ms[update.id] EXCEPT
                     !.label = update.label,
                     !.unit = update.unit,
                     !.value = update.value,
                     !.dirty = @ \/ StrictNotEqual(ms[update.id].lastRenderedValue,
                                                   update.value)]
             ELSE [id |-> update.id, label |-> update.label, unit |-> update.unit,
                   value |-> update.value, dirty |-> TRUE, lastRenderedValue |-> NaN]
       IN  ApplyToVisuals((update.id :> visual) @@ ms, Tail(updates))

\* case "metrics"
OnMetrics ==
  /\ render.frameTimer
  /\ \E n \in 1..MaxUpdates : \E updates \in UpdatesOfLen(n) :
       /\ render' = [render EXCEPT !.order = OrderWith(@, updates),
                                   !.metrics = ApplyToVisuals(@, updates)]
       /\ last' = [Did("metrics") EXCEPT !.args = <<updates>>]
  /\ UNCHANGED outsideWorker

\* the metrics whose cell renderFrame draws:
\* if (!metric) return; if (!metric.dirty && Number.isFinite(...)) return
ToDraw(r) ==
  {id \in DOMAIN r.metrics :
     /\ \E i \in 1..Len(r.order) : r.order[i] = id
     /\ ~(~r.metrics[id].dirty /\ IsFinite(r.metrics[id].lastRenderedValue))}

\* renderFrame, run by the interval timer of startLoop
renderFrame ==
  /\ render.frameTimer
  /\ IF ~render.ctx \/ render.canvas = "null"
     THEN /\ render' = render
          /\ last' = Did("renderFrame")
     ELSE LET cells == ToDraw(render)
          IN  /\ render' =
                   [render EXCEPT
                      !.metrics = [id \in DOMAIN @ |->
                                     IF id \in cells
                                     THEN [@[id] EXCEPT !.lastRenderedValue = render.metrics[id].value,
                                                        !.dirty = FALSE]
                                     ELSE @[id]],
                      !.drawn = [id \in cells |->
                                   [label |-> render.metrics[id].label,
                                    unit |-> render.metrics[id].unit,
                                    value |-> render.metrics[id].value]] @@ @,
                      !.rendered = @ \cup cells]
              /\ last' = [Did("renderFrame") EXCEPT !.args = cells,
                                                    !.wrote = cells # {}]
  /\ UNCHANGED outsideWorker

WorkerNext ==
  \/ OnInit
  \/ OnResize
  \/ OnMetrics
  \/ renderFrame

WorkerSpec == PubInit /\ [][WorkerNext]_vars

\* ------------------------------------------------------------ scripts/compose.sh
outsideCompose == <<pubVars, simVars, last, codec, dashVars, render>>

\* what the script finds on the machine: the commands on PATH, whether
\* `podman compose version`, `podman info` and `docker compose version`
\* succeed (they cannot without their command), and docker-compose.yml
Envs ==
  {e \in [podman : BOOLEAN, podmanPlugin : BOOLEAN, podmanInfo : BOOLEAN,
          podmanCompose : BOOLEAN, docker : BOOLEAN, dockerPlugin : BOOLEAN,
          composeFile : BOOLEAN] :
     /\ e.podmanPlugin => e.podman
     /\ e.podmanInfo => e.podman
     /\ e.dockerPlugin => e.docker}

\* the arguments the script is called with
ArgsIn == {<<>>, <<"up", "-d">>, <<"-f", "x.yml", "up">>, <<"--file=x.yml", "ps">>,
           <<"logs", "--file">>}

\* case "$arg" in -f|--file|--file=*)
IsFileOption(arg) == arg \in {"-f", "--file", "--file=x.yml"}

Invoke ==
  /\ compose.pc = "idle"
  /\ \E e \in Envs, argv \in ArgsIn :
       compose' = [NoRun EXCEPT !.pc = "args", !.env = e, !.argv = argv, !.args = argv]
  /\ UNCHANGED outsideCompose

\* lines 12-24: put -f docker-compose.yml first unless a file was named
DefaultFile ==
  /\ compose.pc = "args"
  /\ LET NEEDS_DEFAULT_FILE == \A i \in 1..Len(compose.args) : ~IsFileOption(compose.args[i])
     IN  compose' = [compose EXCEPT
                       !.pc = "podman",
                       !.args = IF NEEDS_DEFAULT_FILE /\ compose.env.composeFile
                                THEN <<"-f", "docker-compose.yml">> \o @
                                ELSE @]
  /\ UNCHANGED outsideCompose

\* exec front-end "$@": the front-end replaces the script
Exec(c, frontEnd) ==
  [c EXCEPT !.pc = "exec", !.ran = Append(@, [cmd |-> frontEnd, args |-> c.args])]

\* exit n
Exit(c, n) == [c EXCEPT !.pc = "exited", !.exit = n]

TryPodman_mut ==
  /\ compose.pc = "podman"
  /\ compose' = IF compose.env.podman /\ compose.env.podmanPlugin
                THEN Exec(compose, "podman compose")
                ELSE [compose EXCEPT !.pc = "podman-compose"]
  /\ UNCHANGED outsideCompose

\* lines 27-36
TryPodman ==
  /\ compose.pc = "podman"
  /\ compose' = IF compose.env.podman /\ compose.env.podmanPlugin
                THEN IF ~compose.env.podmanInfo
                     THEN Exit(compose, 125)
                     ELSE Exec(compose, "podman compose")
                ELSE [compose EXCEPT !.pc = "podman-compose"]
  /\ UNCHANGED outsideCompose

\* lines 39-41
TryPodmanCompose ==
  /\ compose.pc = "podman-compose"
  /\ compose' = IF compose.env.podmanCompose
                THEN Exec(compose, "podman-compose")
                ELSE [compose EXCEPT !.pc = "docker"]
  /\ UNCHANGED outsideCompose

\* lines 44-48
TryDocker ==
  /\ compose.pc = "docker"
  /\ compose' = IF compose.env.docker /\ compose.env.dockerPlugin
                THEN Exec(compose, "docker compose")
                ELSE [compose EXCEPT !.pc = "none"]
  /\ UNCHANGED outsideCompose

\* lines 50-51
NoneFound ==
  /\ compose.pc = "none"
  /\ compose' = Exit(compose, 1)
  /\ UNCHANGED outsideCompose

ComposeNext ==
  \/ Invoke
  \/ DefaultFile
  \/ TryPodman
  \/ TryPodmanCompose
  \/ TryDocker
  \/ NoneFound

ComposeSpec == PubInit /\ [][ComposeNext]_vars

\* ============================================================ properties
\* the handshake of the current attempt is in flight
Connecting ==
  /\ connectPromise # 0
  /\ promise[connectPromise] = "pending"
  /\ ~isReady

\* a well-formed acknowledgement: byte0 = 0x20, byte1 >= 2, byte3 = 0
WellFormedAck(c) == c[1] = 32 /\ c[2] >= 2 /\ c[4] = 0

\* the initial connect() of the simulator was rejected
ConnectFailed == promise[1] \in {"rejectedErr", "rejectedAck"}

\* the targets randomInRange can produce for metric m
InRange(m, x) == m.min <= x /\ x <= m.max

\* C1: whenever the readiness flag is false (no socket yet, handshake in
\* flight, acknowledgement rejected, socket closed), a publish() call fails
\* with the not-connected error, calls no socket write and leaves the bytes
\* accepted by the socket unchanged.
C1_PublishBeforeReady ==
  [][(last'.op = "publish" /\ ~isReady)
       => (last'.ret = "NotConnected" /\ ~last'.wrote /\ wire' = wire
           /\ sockState' = sockState)]_vars

C1_Witness ==
  /\ last.op = "publish"
  /\ last.ret = "NotConnected"
  /\ socket # 0
  /\ sockState[socket] = "open"
  /\ promise[socket] = "pending"

\* C2: a connect() call made while the handshake is in flight or the
\* connection is ready opens no socket and returns the promise of the
\* attempt already stored, whose settlement it does not change.
C2_ConnectIdempotent ==
  [][(last'.op = "connect" /\ (Connecting \/ isReady))
       => /\ NextId' = NextId
          /\ socket' = socket
          /\ last'.ret = connectPromise
          /\ connectPromise' = connectPromise
          /\ promise' = promise]_vars

C2_Witness ==
  /\ last.op = "connect"
  /\ isReady
  /\ last.ret = connectPromise
  /\ NextId = 2

\* C3: while the handshake is in flight, a chunk of at least 4 bytes with
\* byte0 = 0x20, byte1 >= 2 and byte3 = 0 sets the readiness flag and
\* fulfils the attempt's promise; one with byte3 # 0 rejects the promise
\* with the rejection error and leaves the readiness flag false.
C3_Handshake ==
  [][\A s \in Sockets, c \in Chunks :
       (OnData(s, c) /\ Connecting /\ connectPromise = s /\ Len(c) >= 4)
         => /\ WellFormedAck(c) => (isReady' /\ promise'[s] = "fulfilled")
            /\ c[4] # 0 => (~isReady' /\ promise'[s] = "rejectedAck")]_vars

C3_Witness ==
  /\ last.op = "onData"
  /\ promise[1] = "rejectedAck"
  /\ promise[2] = "fulfilled"
  /\ isReady

\* C4: while the handshake is in flight, a chunk of at least 4 bytes that
\* is not a well-formed acknowledgement rejects the attempt and closes the
\* connection: readiness false, pending handle cleared, socket closed.
C4_RejectCloses ==
  [][\A s \in Sockets, c \in Chunks :
       (OnData(s, c) /\ Connecting /\ connectPromise = s /\ Len(c) >= 4
          /\ ~WellFormedAck(c))
         => /\ promise'[s] = "rejectedAck"
            /\ ~isReady'
            /\ connectPromise' = 0
            /\ sockState'[s] = "closed"]_vars

\* C5: a socket close event leaves the readiness flag false and the pending
\* handle cleared, and the next connect() creates a new socket in the
\* opening state with a new pending promise, which it returns.
C5_CloseResets ==
  [][/\ last'.op = "onClose" => (~isReady' /\ connectPromise' = 0)
     /\ (last'.op = "connect" /\ socket # 0 /\ sockState[socket] = "closed")
          => /\ socket' = NextId
             /\ socket' # socket
             /\ sockState'[socket'] = "opening"
             /\ promise'[socket'] = "pending"
             /\ connectPromise' = socket'
             /\ last'.ret = socket'
             /\ wire' = <<>>]_vars

C5_Witness ==
  /\ last.op = "connect"
  /\ sockState[1] = "closed"
  /\ socket = 2
  /\ sockState[2] = "opening"
  /\ promise[2] = "pending"

\* C6: every connect() attempt settles: once an attempt's socket has closed,
\* its promise is fulfilled or rejected (a closed socket emits no further
\* event, so a promise still pending then stays pending for ever).
C6_AttemptSettles ==
  \A s \in Sockets : sockState[s] = "closed" => promise[s] # "pending"

\* C7: a publish failure inside a metric's tick is contained: the process
\* keeps running and every metric keeps its periodic task.
C7_TickFailureContained ==
  (last.op = "timer" /\ last.ret = "NotConnected")
    => (proc = "running" /\ {timers[i].id : i \in 1..Len(timers)} = MetricIds)

\* C8: once the initial connect() is rejected no timer is registered, no
\* metric is ticked, no publish frame is written, no second socket is
\* created, and the step after the rejection is the exit with status 1.
C8_ConnectFailureFatal ==
  [][/\ ConnectFailed'
          => /\ timers' = <<>>
             /\ ticked' = {}
             /\ \A i \in 1..Len(wire') : wire'[i] # "PUBLISH"
             /\ ~last'.wrote
             /\ NextId' = 2
             /\ proc' \in {"waiting", "exited"}
             /\ proc' = "exited" => exitCode' = 1
     /\ (ConnectFailed /\ Callable /\ proc = "waiting")
          => (proc' = "exited" /\ exitCode' = 1)]_vars

C8_Witness ==
  /\ promise[1] = "rejectedAck"
  /\ proc = "exited"
  /\ exitCode = 1
  /\ last.op = "catch"

\* C9: every metric's value lies in [min, max], initially and after any
\* ticks of any metrics.
C9_ValueClamped ==
  \A id \in MetricIds : InRange(metrics[id], metricStates[id].value)

C9_Witness ==
  /\ last.op = "timer"
  /\ last.clamped
  /\ metricStates["brakePressure"].value > metrics["brakePressure"].min
  /\ metricStates["gear"].value > metrics["gear"].min

\* C10: every metric's target lies in [min, max]; a tick of a metric draws
\* a new target in [min, max] when the clamped value is closer to the old
\* target than smoothing * 5, and otherwise leaves the target unchanged.
C10_TargetResampled ==
  /\ [](\A id \in MetricIds : InRange(metrics[id], metricStates[id].target))
  /\ [][\A id \in MetricIds :
          (last'.op \in {"timer", "startMetricTimer"} /\ last'.metric = id)
            => LET m == metrics[id]
                   near == Abs(metricStates'[id].value - metricStates[id].target)
                             * m.sDen < m.sNum * 5 * m.scale
               IN  IF near
                   THEN /\ last'.resampled
                        /\ \E k \in Rand :
                             metricStates'[id].target = randomInRange(m.min, m.max, k)
                   ELSE /\ ~last'.resampled
                        /\ metricStates'[id].target = metricStates[id].target]_vars

C10_Witness ==
  /\ last.op = "timer"
  /\ last.metric = "brakePressure"
  /\ last.resampled
  /\ metricStates["brakePressure"].value > metrics["brakePressure"].min

\* ------------------------------------------------------------ reading frames
\* the value a reader takes from the bytes of a remaining-length field
RECURSIVE DecodeRemainingLength(_)
DecodeRemainingLength(bytes) ==
  IF Len(bytes) = 0 THEN 0
  ELSE (bytes[1] % 128) + 128 * DecodeRemainingLength(Tail(bytes))

\* the first byte of a UTF-8 character
IsLead(b) == b < 128 \/ b >= 192

\* the code point of the bytes of one UTF-8 character
DecodeChar(b) ==
  CASE Len(b) = 1 -> b[1]
    [] Len(b) = 2 -> (b[1] - 192) * 64 + (b[2] - 128)
    [] Len(b) = 3 -> (b[1] - 224) * 4096 + (b[2] - 128) * 64 + (b[3] - 128)
    [] OTHER      -> (b[1] - 240) * 262144 + (b[2] - 128) * 4096
                       + (b[3] - 128) * 64 + (b[4] - 128)

\* the string of UTF-8 bytes, cut at a character boundary near the middle
RECURSIVE Utf8Decode(_)
Utf8Decode(b) ==
  IF Len(b) = 0 THEN <<>>
  ELSE LET h == Len(b) \div 2
           cuts == {i \in (h - 1)..(h + 4) : i >= 2 /\ i <= Len(b) /\ IsLead(b[i])}
       IN  IF cuts = {} THEN <<DecodeChar(b)>>
           ELSE LET p == CHOOSE i \in cuts : \A j \in cuts : i <= j
                IN  Utf8Decode(SubSeq(b, 1, p - 1)) \o Utf8Decode(SubSeq(b, p, Len(b)))

\* a reader of a length-prefixed field: the two length bytes, big-endian,
\* then that many bytes of UTF-8
DecodeUtf8String(field) ==
  Utf8Decode(SubSeq(field, 3, 2 + field[1] * 256 + field[2]))

\* the number of bytes of the remaining-length field that starts at f[2]
LengthBytes(f) == CHOOSE n \in 1..(Len(f) - 1) :
                    f[1 + n] < 128 /\ \A i \in 1..(n - 1) : f[1 + i] >= 128

C12_RemainingLength ==
  (codec.op = "encodeRemainingLength" /\ codec.arg <= 268435455)
    => LET out == codec.out
       IN  /\ Len(out) \in 1..4
           /\ \A i \in 1..Len(out) : out[i] \in 0..255
           /\ \A i \in 1..(Len(out) - 1) : out[i] >= 128
           /\ out[Len(out)] < 128
           /\ DecodeRemainingLength(out) = codec.arg
           /\ codec.arg = 0 => out = <<0>>
           /\ codec.arg = 127 => out = <<127>>
           /\ codec.arg = 128 => out = <<128, 1>>
           /\ codec.arg = 16384 => out = <<128, 128, 1>>

C12_Witness ==
  /\ codec.op = "encodeRemainingLength"
  /\ codec.arg = 268435455
  /\ codec.out = <<255, 255, 255, 127>>

\* C13: encoding a string of more than 65,535 UTF-8 bytes fails: it does
\* not return a field whose two length bytes differ from the number of
\* bytes that follow them.
C13_OverlongRejected ==
  (codec.op = "encodeUtf8String" /\ Len(Utf8(StringOf(codec.arg))) > 65535)
    => \/ codec.ret # "ok"
       \/ codec.out.len[1] * 256 + codec.out.len[2] = codec.out.following

\* C14: for a string of at most 65,535 UTF-8 bytes encodeUtf8String gives
\* two bytes holding the byte count big-endian, followed by exactly the
\* string's UTF-8 bytes, and reading the field back gives the string.
C14_StringField ==
  (codec.op = "encodeUtf8String" /\ Len(Utf8(StringOf(codec.arg))) <= 65535)
    => LET s == StringOf(codec.arg)
           field == encodeUtf8String(s)
       IN  /\ codec.ret = "ok"
           /\ codec.out.len = SubSeq(field, 1, 2)
           /\ codec.out.len[1] * 256 + codec.out.len[2] = codec.out.following
           /\ codec.out.following = Len(Utf8(s))
           /\ SubSeq(field, 3, Len(field)) = Utf8(s)
           /\ DecodeUtf8String(field) = s

C14_Witness ==
  /\ codec.op = "encodeUtf8String"
  /\ codec.arg = [text |-> <<97, 233>>, times |-> 21845]
  /\ codec.out = [len |-> <<255, 255>>, following |-> 65535]

\* C15: every publish frame the generator writes has the first byte 0x31
\* (retain set, QoS 0) and carries the topic hmi/metrics/<id> of the metric
\* whose tick wrote it.
C15_GeneratorFrames ==
  (last.op \in {"startMetricTimer", "timer"} /\ last.wrote)
    => LET f == last.frame
           n == LengthBytes(f)
       IN  /\ f[1] = 49
           /\ DecodeUtf8String(SubSeq(f, 2 + n, Len(f)))
                = <<104, 109, 105, 47, 109, 101, 116, 114, 105, 99, 115, 47>>
                    \o Text(last.metric)

C15_Witness ==
  /\ last.op = "timer"
  /\ last.wrote
  /\ last.metric = "brakePressure"
  /\ last.frame[1] = 49
  /\ Len(last.frame) > 80

\* the frames of a socket are in handshake order: the connection request
\* comes first and once, every publish frame after an accepted acknowledgement
WireInOrder ==
  /\ wire # <<>> => wire[1] = "CONNECT"
  /\ \A i \in 2..Len(wire) : wire[i] # "CONNECT"
  /\ \A i \in 1..Len(wire) :
       wire[i] = "PUBLISH" => \E j \in 1..(i - 1) : wire[j] = "CONNACK"

\* socket s leaves the connecting state by connecting
Connects(s) == sockState[s] = "opening" /\ sockState'[s] \in {"open", "destroyed"}

\* C16 as stated: on every socket the connection request is written once,
\* at the moment the socket connects and before anything else, and no
\* publish frame is written before a valid acknowledgement was accepted on
\* the same socket.
C16_AsStated ==
  [][/\ \A s \in Sockets : Connects(s) => (s = socket /\ wire' = <<"CONNECT">>)
     /\ WireInOrder']_vars

\* C16 amended: the same on every socket that connects before end() was
\* called on it; on a socket ended while it was connecting the write of the
\* connection request is refused, the socket is destroyed and no frame is
\* ever written on it.
C16_ConnectRequestFirst ==
  [][/\ \A s \in Sockets :
          Connects(s) =>
            /\ s = socket
            /\ s \notin ended => (wire' = <<"CONNECT">> /\ sockState'[s] = "open")
            /\ s \in ended => (wire' = <<>> /\ sockState'[s] = "destroyed")
     /\ (socket # 0 /\ sockState[socket] = "destroyed") => wire' = wire
     /\ WireInOrder']_vars

C16_Witness == wire = <<"CONNECT", "CONNACK", "PUBLISH">>

\* the period of each metric, from the frequency column of the table:
\* 1000 / 1 Hz, 1000 / 30 Hz to the nearest millisecond, 1000 / 2 Hz
PeriodMs(id) ==
  CASE id = "fuelLevel" -> 1000
    [] id = "brakePressure" -> 33
    [] id = "gear" -> 500

\* the metrics with a registered task
Registered == {timers[i].id : i \in 1..Len(timers)}

\* C17: after a successful connect every metric of the table gets exactly
\* one periodic task with its own period and ticks once at its registration;
\* no metric ticks before the connection is Ready; and while the process
\* runs no task is missing and every metric's task can fire, whatever the
\* other tasks do.
C17_PeriodicTasks ==
  /\ (ticked # {} \/ timers # <<>> \/ last.op \in {"startMetricTimer", "timer"})
       => (promise[1] = "fulfilled" /\ proc \notin {"loaded", "waiting"})
  /\ Len(timers) <= Len(metricOrder)
  /\ \A i \in 1..Len(timers) :
       /\ timers[i].id = metricOrder[i]
       /\ timers[i].intervalMs = PeriodMs(timers[i].id)
  /\ ticked = Registered
  /\ last.op = "startMetricTimer"
       => (last.metric = timers[Len(timers)].id /\ last.wrote)
  /\ proc = "running" =>
       /\ Registered = MetricIds
       /\ \A id \in MetricIds :
            Cardinality({i \in 1..Len(timers) : timers[i].id = id}) = 1
       /\ Callable => \A i \in 1..Len(timers) : ENABLED TimerTick(i)

C17_Witness ==
  /\ proc = "running"
  /\ last.op = "timer"
  /\ last.metric = "gear"
  /\ last.wrote

\* C18: end() can be called in any state and any number of times: it does
\* not raise, it asks at most the current socket to close, it opens no
\* socket and it leaves the readiness flag, the pending attempt, the
\* promises, the frames written and the metric state as they were.
C18_EndSafe ==
  [][last'.op = "end" =>
       /\ last'.ret = "none"
       /\ ~last'.wrote
       /\ (ended' \ ended) \subseteq ({socket} \ {0})
       /\ ended \subseteq ended'
       /\ (socket # 0 /\ sockState[socket] \in {"opening", "open"}) => socket \in ended'
       /\ socket' = socket
       /\ sockState' = sockState
       /\ isReady' = isReady
       /\ connectPromise' = connectPromise
       /\ promise' = promise
       /\ wire' = wire
       /\ metricStates' = metricStates
       /\ ticked' = ticked
       /\ timers' = timers]_vars

C18_Witness ==
  /\ last.op = "end"
  /\ socket # 0
  /\ socket \in ended
  /\ isReady
  /\ connectPromise # 0

\* C19: the fuel level (in tenths of a percent) is never below 0 nor above
\* 100 %, and no tick leaves it higher than it was.
C19_FuelNeverRises ==
  [][/\ metricStates'["fuelLevel"].value >= 0
     /\ metricStates'["fuelLevel"].value <= 100 * 10
     /\ metricStates'["fuelLevel"].value <= metricStates["fuelLevel"].value]_vars

C19_Witness ==
  /\ last.op = "timer"
  /\ last.metric = "fuelLevel"
  /\ last.clamped
  /\ last.wrote

\* position of the last queued update for metric id (0 if none)
LastOf(queue, id) ==
  IF \E i \in 1..Len(queue) : queue[i].id = id
  THEN CHOOSE i \in 1..Len(queue) :
         queue[i].id = id /\ \A j \in (i + 1)..Len(queue) : queue[j].id # id
  ELSE 0

\* C20: a metric handed to onMetric is put at the end of the queue and
\* touches nothing else; the next flush applies every queued metric to the
\* store once (one latency sample each, in queue order, the metric's entry
\* left at the last queued value) and forwards them to the worker once, in
\* one message that keeps the queue order; after a flush the queue is empty;
\* a flush of an empty queue changes neither the store nor the worker's inbox.
C20_QueueFlushedOnce ==
  [][/\ last'.op = "onMetric" =>
          /\ pendingUpdates' = Append(pendingUpdates, last'.args[1])
          /\ store' = store
          /\ inbox' = inbox
     /\ last'.op = "flushFrame" =>
          /\ pendingUpdates' = <<>>
          /\ pendingUpdates = <<>> => (store' = store /\ inbox' = inbox)
          /\ pendingUpdates # <<>> =>
               /\ Len(inbox') = Len(inbox) + 1
               /\ SubSeq(inbox', 1, Len(inbox)) = inbox
               /\ inbox'[Len(inbox')].type = "metrics"
               /\ Len(inbox'[Len(inbox')].updates) = Len(pendingUpdates)
               /\ \A i \in 1..Len(pendingUpdates) :
                    LET sent == inbox'[Len(inbox')].updates[i]
                    IN  /\ sent.id = pendingUpdates[i].id
                        /\ sent.label = pendingUpdates[i].label
                        /\ sent.unit = pendingUpdates[i].unit
                        /\ sent.value = pendingUpdates[i].value
               /\ Len(store'.latencySamples)
                    = Len(store.latencySamples) + Len(pendingUpdates)
               /\ \A i \in 1..Len(pendingUpdates) :
                    store'.latencySamples[Len(store.latencySamples) + i]
                      = Max2(0, clock' - pendingUpdates[i].publishedAt)
               /\ \A id \in DOMAIN store'.metrics :
                    IF LastOf(pendingUpdates, id) = 0
                    THEN id \in DOMAIN store.metrics
                           /\ store'.metrics[id] = store.metrics[id]
                    ELSE LET u == pendingUpdates[LastOf(pendingUpdates, id)]
                         IN  /\ store'.metrics[id].value = u.value
                             /\ store'.metrics[id].publishedAt = u.publishedAt
                             /\ store'.metrics[id].lastUpdated = clock'
               /\ \A i \in 1..Len(pendingUpdates) :
                    pendingUpdates[i].id \in DOMAIN store'.metrics]_vars

C20_Witness ==
  /\ last.op = "flushFrame"
  /\ pendingUpdates = <<>>
  /\ Len(inbox) = 4
  /\ Len(inbox[3].updates) = 2
  /\ inbox[3].updates[1].id = inbox[3].updates[2].id
  /\ inbox[3].updates[1].value # inbox[3].updates[2].value
  /\ Len(store.latencySamples) = 3

\* C23: inbound chunks are not reassembled: while the connection is not
\* Ready, a chunk shorter than 4 bytes changes no connection state and
\* settles no promise, so an acknowledgement that arrives in pieces shorter
\* than 4 bytes never makes the connection Ready.
C23_NoReassembly ==
  [][\A s \in Sockets, c \in Chunks :
       (OnData(s, c) /\ ~isReady /\ Len(c) < 4)
         => (UNCHANGED pubVars /\ ~isReady')]_vars

C23_Witness ==
  /\ last.op = "onData"
  /\ Connecting
  /\ sockState[socket] = "open"
  /\ promise[socket] = "pending"
  /\ wire = <<"CONNECT">>

\* C27: the readiness flag is true only if the current connect attempt
\* resolved successfully: after an attempt's connect() has been rejected no
\* inbound chunk on that socket makes the connection Ready, and publish()
\* never succeeds on a connection whose connect() failed.
C27_ReadyOnlyIfResolved ==
  /\ isReady => (socket # 0 /\ promise[socket] = "fulfilled")
  /\ (last.op = "publish" /\ last.ret = "ok") => promise[socket] = "fulfilled"

\* C28: once end() has been called on a Ready connection no further publish
\* frame is written to that socket: publish() called after end() and before
\* the socket's close event fails as not connected, it calls no write and
\* leaves the socket as it was.
C28_NoPublishAfterEnd ==
  [][(last'.op = "publish" /\ isReady /\ socket # 0 /\ socket \in ended)
       => /\ last'.ret = "NotConnected"
          /\ ~last'.wrote
          /\ sockState' = sockState]_vars

\* the connection-request layout for a client identifier of n UTF-8 bytes,
\* read from the part of the frame before the identifier's bytes
ConnectLayout(head, length, n) ==
  LET k == LengthBytes(head)
  IN  /\ head[1] = 16
      /\ DecodeRemainingLength(SubSeq(head, 2, 1 + k)) = 10 + 2 + n
      /\ SubSeq(head, 2 + k, Len(head))
           = <<0, 4, 77, 81, 84, 84, 4, 2, 0, 60, n \div 256, n % 256>>
      /\ length - (1 + k) = 10 + 2 + n
      /\ length = Len(head) + n

\* C24: for every client identifier the connection-request frame is 0x10,
\* the variable-length encoding of 10 + 2 + the identifier's byte length,
\* the field "MQTT", level 0x04, flags 0x02, keep-alive 0x00 0x3C, then the
\* identifier prefixed with its length; the remaining length is the number
\* of bytes that follow it.
C24_ConnectFrame ==
  codec.op = "buildConnectPacket"
    => LET clientId == StringOf(codec.arg)
           frame == buildConnectPacket(clientId)
       IN  /\ ConnectLayout(codec.out.head, codec.out.length, Len(Utf8(clientId)))
           /\ SubSeq(frame, Len(codec.out.head) + 1, Len(frame)) = Utf8(clientId)

\* the layout of C24 for the identifiers the string field can carry
C24_UpTo65535 ==
  (codec.op = "buildConnectPacket" /\ Len(Utf8(StringOf(codec.arg))) <= 65535)
    => C24_ConnectFrame

\* a step that runs publishMetric
IsTick(op) == op \in {"startMetricTimer", "timer"}

\* C25: a tick of metric A changes only A's value and target: every other
\* metric's value and target, the readiness flag and the pending handle are
\* unchanged by it, and no step other than a metric's own tick changes that
\* metric's state.
C25_TickIsolated ==
  [][/\ IsTick(last'.op)
          => /\ \A id \in MetricIds \ {last'.metric} :
                  metricStates'[id] = metricStates[id]
             /\ isReady' = isReady
             /\ connectPromise' = connectPromise
     /\ \A id \in MetricIds :
          metricStates'[id] # metricStates[id]
            => (IsTick(last'.op) /\ last'.metric = id)]_vars

C25_Witness ==
  /\ last.op = "timer"
  /\ last.metric = "fuelLevel"
  /\ last.ret = "ok"
  /\ ticked = MetricIds
  /\ metricStates["gear"].value # metrics["gear"].min
  /\ metricStates["brakePressure"].value # metrics["brakePressure"].min
  /\ isReady

\* C26: the accumulating metrics odometer and trip are monotonic: no tick
\* lowers the value, and a value that has reached max stays at max.
C26_Monotonic ==
  [][\A id \in AccIds :
       /\ metricStates'[id].value >= metricStates[id].value
       /\ metricStates[id].value = accumulating[id].max
            => metricStates'[id].value = accumulating[id].max]_vars

C26_Witness ==
  /\ last.op = "timer"
  /\ last.metric = "odometer"
  /\ last.clamped
  /\ metricStates["odometer"].value = accumulating["odometer"].max
  /\ metricStates["trip"].value \in 1..MaxAcc

\* the position of the first update of the queue that names id
FirstOf(queue, id) ==
  CHOOSE i \in 1..Len(queue) :
    queue[i].id = id /\ \A j \in 1..(i - 1) : queue[j].id # id

\* the ids of a sequence
IdsOf(order) == {order[i] : i \in 1..Len(order)}

\* what C30 says of the store after a step from a store whose order was
\* `before`, over the ids outside `but`
OrderTracks(before, st, queue, but) ==
  LET order == st.order
  IN  /\ \A i, j \in 1..Len(order) : order[i] = order[j] => i = j
      /\ IdsOf(order) = (DOMAIN st.metrics) \ but
      /\ Len(order) >= Len(before)
      /\ SubSeq(order, 1, Len(before)) = before
      /\ \A i, j \in (Len(before) + 1)..Len(order) :
           i < j => FirstOf(queue, order[i]) < FirstOf(queue, order[j])
      /\ applyUpdates(st, <<>>, clock + 1) = st

\* C30: after any sequence of applyUpdates calls, order has no duplicate
\* id, holds exactly the ids that have an entry in metrics, in first-seen
\* order, and never loses or moves an id it already holds; applyUpdates
\* with an empty list changes nothing.
C30_OrderTracksMetrics ==
  [][OrderTracks(store.order, store', pendingUpdates, {})]_vars

\* C30 for the ids that are not names of Object.prototype
C30_OwnNames ==
  [][OrderTracks(store.order, store', pendingUpdates, ObjectPrototypeKeys)]_vars

\* the script has ended: a front-end took over, or it exited
ComposeDone == compose.pc \in {"exec", "exited"}

\* the arguments a front-end is given
PassedArgs ==
  IF compose.env.composeFile
       /\ \A i \in 1..Len(compose.argv) : ~IsFileOption(compose.argv[i])
  THEN <<"-f", "docker-compose.yml">> \o compose.argv
  ELSE compose.argv

\* the front-ends that can be used, in priority order
UsableFrontEnds ==
  LET e == compose.env
  IN  (IF e.podman /\ e.podmanPlugin /\ e.podmanInfo THEN <<"podman compose">> ELSE <<>>)
        \o (IF e.podmanCompose THEN <<"podman-compose">> ELSE <<>>)
        \o (IF e.docker /\ e.dockerPlugin THEN <<"docker compose">> ELSE <<>>)

\* C22 as stated: the script runs exactly one front-end, the first usable
\* one in the order podman compose, podman-compose, docker compose, and
\* fails without running one only when none of the three is available.
C22_AsStated ==
  ComposeDone =>
    IF UsableFrontEnds = <<>>
    THEN compose.ran = <<>> /\ compose.exit = 1
    ELSE compose.ran = <<[cmd |-> UsableFrontEnds[1], args |-> PassedArgs]>>

\* C22: the script runs at most one front-end. With the podman compose
\* plugin present it runs podman compose if `podman info` succeeds and
\* otherwise exits 125 without trying another front-end; without the plugin
\* it runs podman-compose if installed, else docker compose if its plugin
\* works, else exits 1 having run nothing.
C22_FrontEnd ==
  ComposeDone =>
    LET e == compose.env
        run(frontEnd) == compose.ran = <<[cmd |-> frontEnd, args |-> PassedArgs]>>
    IN  IF e.podman /\ e.podmanPlugin
        THEN IF e.podmanInfo THEN run("podman compose")
             ELSE compose.ran = <<>> /\ compose.exit = 125
        ELSE IF e.podmanCompose THEN run("podman-compose")
        ELSE IF e.docker /\ e.dockerPlugin THEN run("docker compose")
        ELSE compose.ran = <<>> /\ compose.exit = 1

C22_Witness ==
  /\ compose.pc = "exited"
  /\ compose.exit = 125
  /\ compose.env.podmanCompose
  /\ compose.env.dockerPlugin
  /\ compose.ran = <<>>

\* the ids listed in the worker's order that have an entry
Listed(r) == {id \in DOMAIN r.metrics : \E i \in 1..Len(r.order) : r.order[i] = id}

\* a frame ran with a drawing context
FrameDrew == last'.op = "renderFrame" /\ render.ctx /\ render.canvas # "null"

\* C21 for the metrics `ids`: a frame draws a cell only if its metric is
\* dirty or was never rendered; after a frame with a context every listed
\* metric is clean with lastRenderedValue equal to its value; a metrics
\* message makes a clean existing metric dirty only if one of its updates
\* carries a value other than the last rendered one
DirtyOnly(ids) ==
  /\ FrameDrew =>
       /\ \A id \in last'.args \cap ids :
            render.metrics[id].dirty \/ id \notin render.rendered
       /\ \A id \in Listed(render') \cap ids :
            /\ ~render'.metrics[id].dirty
            /\ render'.metrics[id].lastRenderedValue = render'.metrics[id].value
  /\ last'.op = "metrics" =>
       \A id \in DOMAIN render.metrics \cap ids :
         (~render.metrics[id].dirty /\ render'.metrics[id].dirty)
           => \E i \in 1..Len(last'.args[1]) :
                /\ last'.args[1][i].id = id
                /\ last'.args[1][i].value # render.metrics[id].lastRenderedValue

\* C21: the render worker redraws only dirty cells.
C21_DirtyCellsOnly == [][DirtyOnly({"gear", "fuelLevel"})]_vars

\* C21 for a metric whose values are all finite
C21_FiniteValues == [][DirtyOnly({"fuelLevel"})]_vars

\* C29: after a render frame with a drawing context the label, unit and
\* value last drawn for every metric listed in order are the most recently
\* received ones.
C29_NoStaleCell ==
  [][FrameDrew =>
       \A id \in Listed(render') :
         /\ id \in DOMAIN render'.drawn
         /\ render'.drawn[id].label = render'.metrics[id].label
         /\ render'.drawn[id].unit = render'.metrics[id].unit
         /\ render'.drawn[id].value = render'.metrics[id].value]_vars

\* the j-th sample to have arrived once the batch of descriptor d is added
\* at frame time t to the samples held before: a held one, or the batch's
\* Math.max(0, t - publishedAt)
Arrived(held, d, t, j) ==
  IF j <= Len(held) THEN held[j]
  ELSE Max2(0, t - BatchOf(d)[j - Len(held)].publishedAt)

\* C31: after every applyUpdates call latencySamples holds at most 600
\* entries: the most recently added samples, in arrival order, the oldest
\* dropped first, whatever the size of the batch.
C31_LatencyWindow ==
  [][last'.op = "applyUpdates" =>
       LET d == last'.args[1]
           total == Len(store.latencySamples) + d.n
           kept == IF total <= 600 THEN total ELSE 600
       IN  /\ Len(store'.latencySamples) <= 600
           /\ Len(store'.latencySamples) = kept
           /\ \A i \in 1..kept :
                store'.latencySamples[i]
                  = Arrived(store.latencySamples, d, clock', total - kept + i)]_vars

C31_Witness ==
  /\ last.op = "applyUpdates"
  /\ clock = 2
  /\ last.args[1].n = LATENCY_WINDOW + 1
  /\ Len(store.latencySamples) = 600
  /\ store.latencySamples[1] = 2
  /\ store.latencySamples[600] = 0

\* the decoded value of a valid payload has no id: it is not an object, or
\* an object without an id, or with a null one
HasNoId(decoded) ==
  \/ decoded.kind # "object"
  \/ "id" \notin DOMAIN decoded.v
  \/ decoded.v.id.kind = "null"

\* the decoded value is an object whose id is a string that is not empty
HasNonEmptyId(decoded) ==
  /\ decoded.kind = "object"
  /\ "id" \in DOMAIN decoded.v
  /\ decoded.v.id.kind = "string"
  /\ decoded.v.id.v # ""

\* C32: a message whose payload is not valid JSON, or whose decoded value
\* has no id, never invokes onMetric and never raises out of the message
\* handler; every message with valid JSON and a non-empty id invokes
\* onMetric exactly once.
C32_MessageHandler ==
  last.op = "message" =>
    LET decoded == JSONParse(last.args[1])
    IN  /\ (decoded.kind = "SyntaxError" \/ HasNoId(decoded))
             => last.calls = <<>> /\ last.ret = "returned"
        /\ (decoded.kind # "SyntaxError" /\ HasNonEmptyId(decoded))
             => Len(last.calls) = 1 /\ last.calls[1].id = decoded.v.id.v

\* a truncated payload was logged and dropped after a message with every
\* field defaulted had reached the queue
C32_Witness ==
  /\ last.op = "message"
  /\ JSONParse(last.args[1]).kind = "SyntaxError"
  /\ last.args[1] # ""
  /\ last.logged /\ last.calls = <<>> /\ last.ret = "returned"
  /\ pendingUpdates
       = <<[id |-> "fuelLevel", label |-> "fuelLevel", unit |-> "", value |-> 0,
            publishedAt |-> 0]>>
====
